---- MODULE Spec2Model ----
(***************************************************************************)
(* A model of mpcalc.py: the command-line pipeline that validates an       *)
(* expression, prefixes names with "mp.", moves number literals into the   *)
(* NUMBERS table, strips backslashes and evaluates the result under        *)
(* mp.workdps(DIGITS).                                                     *)
(*                                                                         *)
(* An expression is a sequence of one-character strings.  Regular          *)
(* expressions are modelled by what re.search / re.sub do with them:       *)
(* leftmost match, greedy quantifiers with backtracking, lookbehind and    *)
(* lookahead on the neighbouring character, non-overlapping matches.       *)
(***************************************************************************)
EXTENDS Integers, Sequences, FiniteSets, TLC

\* Longest command-line expression explored.
MaxLen == 4

(***************************************************************************)
(* Characters                                                              *)
(***************************************************************************)

\* [a-zA-Z], as far as the model's strings use it: the letters an input may
\* hold, and the letters of the inserted texts "mp." and "NUMBERS['...']".
Letters == {"x", "e", "j", "m", "p", "N", "U", "M", "B", "E", "R", "S"}

\* [0-9] / \d under re.ASCII
Digits == {"1"}

\* \s
Whitespace == {" "}

\* The characters a command-line expression is drawn from: a plain letter,
\* the exponent and imaginary letters, a digit, and one character of each
\* kind the patterns tell apart ("$" is outside allowed_characters).
Sigma == {"x", "e", "j", "1", "_", ".", "-", "\\", " ", ")", "$"}

\* The character at index i of s, "" outside it (at the string's start a
\* negative lookbehind succeeds, at its end a negative lookahead succeeds).
At(s, i) == IF i >= 1 /\ i <= Len(s) THEN s[i] ELSE ""

\* allowed_characters = r"a-zA-Z0-9\s_:=" + re.escape(r"\().+-/*^&|,[]")
allowed_characters ==
    Letters \cup Digits \cup Whitespace \cup
    {"_", ":", "=", "\\", "(", ")", ".", "+", "-", "/", "*", "^", "&", "|", ",", "[", "]"}

\* cannot_start_after = r"a-zA-Z\d_" + re.escape(r"\.")
cannot_start_after == Letters \cup Digits \cup {"_", "\\", "."}

(***************************************************************************)
(* The Validator's two searches                                            *)
(***************************************************************************)

\* disallowed_characters.search(s): the index of the leftmost character
\* outside the allowed class, 0 when there is none.
disallowed_characters(s) ==
    IF \E i \in 1..Len(s) : s[i] \notin allowed_characters
    THEN CHOOSE i \in 1..Len(s) :
            /\ s[i] \notin allowed_characters
            /\ \A k \in 1..(i - 1) : s[k] \in allowed_characters
    ELSE 0

\* open_float_pattern matches at i:  ((?<!\d)\.\d) | (\d\.(?!\d))
OpenFloatAt(s, i) ==
    \/ /\ At(s, i - 1) \notin Digits
       /\ s[i] = "."
       /\ At(s, i + 1) \in Digits
    \/ /\ s[i] \in Digits
       /\ At(s, i + 1) = "."
       /\ At(s, i + 2) \notin Digits

\* A mutation of open_float_pattern: the second alternative only.
OpenFloatTrailingOnly(s) ==
    \E i \in 1..Len(s) :
        s[i] \in Digits /\ At(s, i + 1) = "." /\ At(s, i + 2) \notin Digits

\* open_float_pattern.search(s) is not None
open_float_pattern(s) == \E i \in 1..Len(s) : OpenFloatAt(s, i)

\* Lines 64-67: the exception the two checks raise, "none" when both pass.
ValidationError(s) ==
    IF disallowed_characters(s) # 0 THEN "InvalidCharacter"
    ELSE IF open_float_pattern(s) THEN "AmbiguousFloatLiteral"
    ELSE "none"

(***************************************************************************)
(* name_pattern and re.sub(name_pattern, r"mp.\1", expression)             *)
(***************************************************************************)

NamespacePrefix == <<"m", "p", ".">>

\* The longest run of [a-zA-Z0-9] starting at i: the index of its last
\* character, i - 1 when the run is empty.
RECURSIVE AlnumRunEnd(_, _)
AlnumRunEnd(s, i) ==
    IF At(s, i) \in Letters \cup Digits THEN AlnumRunEnd(s, i + 1) ELSE i - 1

\* A mutation of the lookbehind: the backslash left out of the class.
NameLookbehindNoEscape(s, i) ==
    At(s, i - 1) \notin (Letters \cup Digits \cup {"_", "."})

\* (?<![cannot_start_after]) at position i
NameLookbehind(s, i) == At(s, i - 1) \notin cannot_start_after

\* name_pattern matched at i: the index of the match's last character, 0 when
\* the pattern does not match there.
\*   (?<![...])([a-zA-Z_][a-zA-Z0-9]*)
NameMatchEnd(s, i) ==
    IF NameLookbehind(s, i) /\ At(s, i) \in Letters \cup {"_"}
    THEN AlnumRunEnd(s, i + 1)
    ELSE 0

\* re.sub(name_pattern, r"mp.\1", s) from position i on: a position where the
\* pattern does not match is copied, a match is replaced and the scan goes on
\* behind it.
RECURSIVE SubNames(_, _)
SubNames(s, i) ==
    IF i > Len(s) THEN <<>>
    ELSE LET e == NameMatchEnd(s, i)
         IN  IF e = 0
             THEN <<s[i]>> \o SubNames(s, i + 1)
             ELSE NamespacePrefix \o SubSeq(s, i, e) \o SubNames(s, e + 1)

(***************************************************************************)
(* number_pattern                                                          *)
(*   (?<![cannot_start_after])                                             *)
(*   (-?INT(?:\.INT)?(?:e-?INT)?)j?(?![a-zA-Z\d\._])                       *)
(* with INT = \d[\d_]*(?<!_)                                               *)
(***************************************************************************)

\* int_pattern started at p: every index the pattern can end at.  The greedy
\* [\d_]* tries the longest run first and gives characters back while the
\* lookbehind (?<!_) fails.
IntEnds(s, p) ==
    {e \in p..Len(s) :
        /\ s[p] \in Digits
        /\ \A k \in (p + 1)..e : s[k] \in Digits \cup {"_"}
        /\ s[e] # "_"}

\* A mutation of the leading -?: the pattern without it.
NoLeadingMinus(s, i) == 0

\* The leading -? of number_pattern at i: how many characters it takes.  With
\* a minus at i the pattern cannot match without taking it (INT starts with
\* a digit).
LeadingMinus(s, i) == IF At(s, i) = "-" THEN 1 ELSE 0

\* The -? of the exponent, as above.
ExponentMinus(s, i) == IF At(s, i) = "-" THEN 1 ELSE 0

\* (?:\.INT)? behind an integer part ending at e1: <<taken, end>>
FractionEnds(s, e1) ==
    {<<0, e1>>} \cup
    (IF At(s, e1 + 1) = "."
     THEN {<<1, e2>> : e2 \in IntEnds(s, e1 + 2)}
     ELSE {})

\* (?:e-?INT)? behind a mantissa ending at e2: <<taken, end>>
ExponentEnds(s, e2) ==
    {<<0, e2>>} \cup
    (IF At(s, e2 + 1) = "e"
     THEN {<<1, e3>> : e3 \in IntEnds(s, e2 + 2 + ExponentMinus(s, e2 + 2))}
     ELSE {})

\* j? behind group 1 ending at e3: <<taken, end>>
ImaginaryEnds(s, e3) ==
    {<<0, e3>>} \cup (IF At(s, e3 + 1) = "j" THEN {<<1, e3 + 1>>} ELSE {})

\* (?![a-zA-Z\d\._]) behind a match ending at e
NumberLookahead(s, e) == At(s, e + 1) \notin (Letters \cup Digits \cup {".", "_"})

\* (?<![cannot_start_after]) at position i
NumberLookbehind(s, i) == At(s, i - 1) \notin cannot_start_after

\* Every way number_pattern matches at i.  pref lists the choices the
\* backtracking matcher makes, in the order it makes them; the matcher tries
\* the larger value of each first.
NumberCandidates(s, i) ==
    IF ~NumberLookbehind(s, i) THEN {}
    ELSE UNION {UNION {UNION {
            {[start |-> i, g1end |-> x[2], end |-> j[2],
              pref |-> <<e1, f[1], f[2], x[1], x[2], j[1]>>]
                : j \in {y \in ImaginaryEnds(s, x[2]) : NumberLookahead(s, y[2])}}
            : x \in ExponentEnds(s, f[2])}
            : f \in FractionEnds(s, e1)}
            : e1 \in IntEnds(s, i + LeadingMinus(s, i))}

\* a is tried before b
TriedBefore(a, b) ==
    \E k \in 1..6 : a[k] > b[k] /\ \A h \in 1..(k - 1) : a[h] = b[h]

NoMatch == [start |-> 0, g1end |-> 0, end |-> 0]

\* number_pattern matched at i: the first candidate the matcher reaches, as
\* the match's start, the end of group 1 and the end of group 0; NoMatch
\* when there is none.
NumberMatchAt(s, i) ==
    LET cands == NumberCandidates(s, i)
    IN  IF cands = {} THEN NoMatch
        ELSE LET best == CHOOSE c \in cands :
                            \A d \in cands \ {c} : TriedBefore(c.pref, d.pref)
             IN  [start |-> best.start, g1end |-> best.g1end, end |-> best.end]

\* The leftmost match at or behind position from, as re.sub finds it.
NextNumberMatch(s, from) ==
    IF \E i \in from..Len(s) : NumberMatchAt(s, i).end # 0
    THEN NumberMatchAt(s, CHOOSE i \in from..Len(s) :
            /\ NumberMatchAt(s, i).end # 0
            /\ \A k \in from..(i - 1) : NumberMatchAt(s, k).end = 0)
    ELSE NoMatch

(***************************************************************************)
(* replace_number_with_mpf                                                 *)
(***************************************************************************)

\* A mutation of the key: group 1 (the literal without its j) for group 0.
KeyGroup1(s, m) == SubSeq(s, m.start, m.g1end)

\* key = match[0]
MatchKey(s, m) == SubSeq(s, m.start, m.end)

\* mp.mpmathify(key) at the precision in force: what the table's value is
\* known by here, its kind (mpc for a text with j) and its precision.
mpmathify(key, dps) ==
    [complex |-> \E k \in 1..Len(key) : key[k] = "j", dps |-> dps]

\* f"NUMBERS['{key}']"
Lookup(key) ==
    <<"N", "U", "M", "B", "E", "R", "S", "[", "'">> \o key \o <<"'", "]">>

\* NUMBERS = {}
EmptyTable == <<>>

\* A mutation of the table's update: the table rebuilt around the new key.
InsertAlone(table, key, dps) ==
    [k \in {key} |-> mpmathify(key, dps)]

\* if not key in NUMBERS: NUMBERS[key] = mp.mpmathify(key)
InsertNumber(table, key, dps) ==
    IF key \in DOMAIN table THEN table
    ELSE [k \in DOMAIN table \cup {key} |->
            IF k = key THEN mpmathify(key, dps) ELSE table[k]]

\* expression.replace("\\", "")
RECURSIVE StripBackslashes(_)
StripBackslashes(s) ==
    IF s = <<>> THEN <<>>
    ELSE (IF Head(s) = "\\" THEN <<>> ELSE <<Head(s)>>) \o StripBackslashes(Tail(s))

(***************************************************************************)
(* The run of the script                                                   *)
(***************************************************************************)

VARIABLES
    pc,                 \* where the script stands
    args_expression,    \* args.expression, the command line's expression
    DIGITS,             \* args.digits
    expression,         \* the variable the stages rewrite
    NUMBERS,            \* the module's table of number literals
    mp_dps,             \* mp.dps, the precision in force
    orig_dps,           \* the precision mp.workdps saved on entry
    dps_before,         \* the precision in force when the run began
    pos,                \* re.sub(number_pattern, ...): where the scan stands
    out,                \* re.sub(number_pattern, ...): the text built so far
    matches,            \* the matches handed to replace_number_with_mpf
    error,              \* the exception that ended the run, "none" without
    errchar,            \* the character an InvalidCharacter error names
    ran,                \* the stages entered, in order
    printed,            \* whether a result was printed
    leftover            \* whether the run before left entries in its table

vars == <<pc, args_expression, DIGITS, expression, NUMBERS, mp_dps, orig_dps,
          dps_before, pos, out, matches, error, errchar, ran, printed, leftover>>

\* The precision of a freshly imported mp (from mpmath import mp).
MpDefaultDps == 15

\* The values of --digits explored: a small one and the default of line 19.
DigitChoices == {5, 100}

\* Every expression of at most MaxLen characters.
Inputs == UNION {[1..n -> Sigma] : n \in 0..MaxLen}

Init ==
    /\ pc = "boot"
    /\ args_expression = <<>>
    /\ DIGITS = 100
    /\ expression = <<>>
    /\ NUMBERS = EmptyTable
    /\ mp_dps = MpDefaultDps
    /\ orig_dps = MpDefaultDps
    /\ dps_before = MpDefaultDps
    /\ pos = 1
    /\ out = <<>>
    /\ matches = <<>>
    /\ error = "none"
    /\ errchar = ""
    /\ ran = <<>>
    /\ printed = FALSE
    /\ leftover = FALSE

\* A mutation of line 43: the table of the run before is kept.
StaleNumbers == NUMBERS

\* Line 43, run when the script is loaded: NUMBERS = {}
FreshNumbers == EmptyTable

\* The script is loaded, lines 1-53: mp is imported with its default
\* precision and NUMBERS is bound to a new dictionary.  Nothing of the run
\* before is left but what this step fails to set.
Load ==
    /\ pc = "boot"
    /\ NUMBERS' = FreshNumbers
    /\ mp_dps' = MpDefaultDps
    /\ dps_before' = MpDefaultDps
    /\ orig_dps' = MpDefaultDps
    /\ args_expression' = <<>>
    /\ expression' = <<>>
    /\ DIGITS' = 100
    /\ pos' = 1
    /\ out' = <<>>
    /\ matches' = <<>>
    /\ error' = "none"
    /\ errchar' = ""
    /\ ran' = <<>>
    /\ printed' = FALSE
    /\ leftover' = (DOMAIN NUMBERS # {})
    /\ pc' = "loaded"

\* Lines 56-60: the arguments are read.
ParseArgs ==
    /\ pc = "loaded"
    /\ \E e \in Inputs, d \in DigitChoices :
        /\ args_expression' = e
        /\ expression' = e
        /\ DIGITS' = d
    /\ pc' = "start"
    /\ UNCHANGED <<leftover, NUMBERS, mp_dps, orig_dps, dps_before, pos, out, matches, error,
                   errchar, ran, printed>>

\* The script ends, by line 92 or by an uncaught exception; it may be run
\* again.
Exit ==
    /\ pc \in {"done", "failed"}
    /\ pc' = "boot"
    /\ UNCHANGED <<leftover, args_expression, DIGITS, expression, NUMBERS, mp_dps, orig_dps,
                   dps_before, pos, out, matches, error, errchar, ran, printed>>

\* A mutation of lines 64-67: the checks report but do not raise.
ContinueAfterValidation(err) == "validated"

\* Lines 64-67: a raise ends the run, otherwise the with block is next.
AfterValidation(err) == IF err = "none" THEN "validated" ELSE "failed"

\* Lines 64-67: the two checks.
Validate ==
    /\ pc = "start"
    /\ LET err == ValidationError(expression)
       IN  /\ error' = err
           /\ errchar' = IF err = "InvalidCharacter"
                         THEN expression[disallowed_characters(expression)]
                         ELSE ""
           /\ pc' = AfterValidation(err)
    /\ ran' = Append(ran, "Validator")
    /\ UNCHANGED <<leftover, args_expression, DIGITS, expression, NUMBERS, mp_dps, orig_dps,
                   dps_before, pos, out, matches, printed>>

\* A mutation of mp.workdps: the precision is not put back on an exception.
WorkdpsLeak(saved, current) == current

\* mp.workdps leaves the with block, by its end or by an exception: the
\* precision saved on entry is put back.
WorkdpsExit(saved, current) == saved

\* Lines 69-71: the with block is entered (mp.workdps saves the precision and
\* sets DIGITS) and the names are prefixed.
Qualify ==
    /\ pc = "validated"
    /\ orig_dps' = mp_dps
    /\ mp_dps' = DIGITS
    /\ expression' = SubNames(expression, 1)
    /\ ran' = Append(ran, "Qualifier")
    /\ pc' = "qualified"
    /\ UNCHANGED <<leftover, args_expression, DIGITS, NUMBERS, dps_before, pos, out, matches,
                   error, errchar, printed>>

\* Line 75, one match of re.sub: the text before the match is copied, the
\* callback (lines 44-52) stores the key and returns the lookup.
ExtractMatch ==
    /\ pc \in {"qualified", "extracting"}
    /\ LET m == NextNumberMatch(expression, pos)
           key == MatchKey(expression, m)
       IN  /\ m.end # 0
           /\ NUMBERS' = InsertNumber(NUMBERS, key, mp_dps)
           /\ out' = out \o SubSeq(expression, pos, m.start - 1) \o Lookup(key)
           /\ pos' = m.end + 1
           /\ matches' = Append(matches, [start |-> m.start, g1end |-> m.g1end,
                                          end |-> m.end, key |-> key])
    /\ ran' = IF pc = "qualified" THEN Append(ran, "Extractor") ELSE ran
    /\ pc' = "extracting"
    /\ UNCHANGED <<leftover, args_expression, DIGITS, expression, mp_dps, orig_dps, dps_before,
                   error, errchar, printed>>

\* Line 50 raises: mp.mpmathify does not accept the key (the library decides
\* which texts).  The exception leaves the with block and ends the run.
ExtractParseFail ==
    /\ pc \in {"qualified", "extracting"}
    /\ LET m == NextNumberMatch(expression, pos)
       IN  /\ m.end # 0
           /\ MatchKey(expression, m) \notin DOMAIN NUMBERS
    /\ error' = "LiteralParseError"
    /\ mp_dps' = WorkdpsExit(orig_dps, mp_dps)
    /\ ran' = IF pc = "qualified" THEN Append(ran, "Extractor") ELSE ran
    /\ pc' = "failed"
    /\ UNCHANGED <<leftover, args_expression, DIGITS, expression, NUMBERS, orig_dps, dps_before,
                   pos, out, matches, errchar, printed>>

\* Line 75, the end of re.sub: no match is left, the rest is copied and the
\* result is assigned.
ExtractFinish ==
    /\ pc \in {"qualified", "extracting"}
    /\ NextNumberMatch(expression, pos).end = 0
    /\ expression' = out \o SubSeq(expression, pos, Len(expression))
    /\ ran' = IF pc = "qualified" THEN Append(ran, "Extractor") ELSE ran
    /\ pc' = "extracted"
    /\ UNCHANGED <<leftover, args_expression, DIGITS, NUMBERS, mp_dps, orig_dps, dps_before,
                   pos, out, matches, error, errchar, printed>>

\* Line 80
Strip ==
    /\ pc = "extracted"
    /\ expression' = StripBackslashes(expression)
    /\ ran' = Append(ran, "Stripper")
    /\ pc' = "stripped"
    /\ UNCHANGED <<leftover, args_expression, DIGITS, NUMBERS, mp_dps, orig_dps, dps_before,
                   pos, out, matches, error, errchar, printed>>

\* Line 83, eval returns a value (the evaluator is Python's: which strings it
\* accepts is not modelled).
Eval ==
    /\ pc = "stripped"
    /\ ran' = Append(ran, "Evaluator")
    /\ pc' = "evaluated"
    /\ UNCHANGED <<leftover, args_expression, DIGITS, expression, NUMBERS, mp_dps, orig_dps,
                   dps_before, pos, out, matches, error, errchar, printed>>

\* Line 83, eval raises: the exception leaves the with block and ends the run.
EvalFail ==
    /\ pc = "stripped"
    /\ ran' = Append(ran, "Evaluator")
    /\ error' = "EvaluationError"
    /\ mp_dps' = WorkdpsExit(orig_dps, mp_dps)
    /\ pc' = "failed"
    /\ UNCHANGED <<leftover, args_expression, DIGITS, expression, NUMBERS, orig_dps, dps_before,
                   pos, out, matches, errchar, printed>>

\* Lines 84-92: the value is printed and the with block ends.
PrintValue ==
    /\ pc = "evaluated"
    /\ printed' = TRUE
    /\ mp_dps' = WorkdpsExit(orig_dps, mp_dps)
    /\ pc' = "done"
    /\ UNCHANGED <<leftover, args_expression, DIGITS, expression, NUMBERS, orig_dps, dps_before,
                   pos, out, matches, error, errchar, ran>>

Next ==
    \/ Load
    \/ ParseArgs
    \/ Validate
    \/ Qualify
    \/ ExtractMatch
    \/ ExtractParseFail
    \/ ExtractFinish
    \/ Strip
    \/ Eval
    \/ EvalFail
    \/ PrintValue
    \/ Exit

Spec == Init /\ [][Next]_vars

(***************************************************************************)
(* The Validator                                                           *)
(***************************************************************************)

\* The allowed set as the contract lists it: letters, digits, whitespace,
\* underscore, colon, equals, backslash, parentheses, period, plus, minus,
\* slash, asterisk, caret, ampersand, pipe, comma, brackets.
C1_Allowed ==
    Letters \cup Digits \cup Whitespace \cup
    {"_"} \cup {":"} \cup {"="} \cup {"\\"} \cup {"(", ")"} \cup {"."} \cup {"+"} \cup
    {"-"} \cup {"/"} \cup {"*"} \cup {"^"} \cup {"&"} \cup {"|"} \cup {","} \cup {"[", "]"}

\* A digit immediately followed by a period with no digit after it, or a
\* period immediately followed by a digit with no digit before it.
C1_OpenFloat(s) ==
    \E i \in 1..(Len(s) - 1) :
        \/ /\ s[i] \in Digits
           /\ s[i + 1] = "."
           /\ (i + 2 > Len(s) \/ s[i + 2] \notin Digits)
        \/ /\ s[i] = "."
           /\ s[i + 1] \in Digits
           /\ (i = 1 \/ s[i - 1] \notin Digits)

\* C1: once the Validator has run, its outcome is exactly one of three: a
\* string with a character outside the allowed set fails with InvalidCharacter
\* naming the leftmost such character; otherwise a string with an open float
\* fails with AmbiguousFloatLiteral; otherwise the string is accepted.  "1."
\* and ".1" are rejected, "1.1" is accepted.
C1_ValidatorOutcome ==
    pc \notin {"boot", "loaded", "start"} =>
        LET s == args_expression
            bad == {i \in 1..Len(s) : s[i] \notin C1_Allowed}
            rejected == error \in {"InvalidCharacter", "AmbiguousFloatLiteral"}
        IN  /\ bad # {} =>
                /\ error = "InvalidCharacter"
                /\ \E i \in bad : errchar = s[i] /\ \A k \in bad : i <= k
            /\ (bad = {} /\ C1_OpenFloat(s)) => error = "AmbiguousFloatLiteral"
            /\ (bad = {} /\ ~C1_OpenFloat(s)) => ~rejected
            /\ rejected <=> (pc = "failed" /\ ran = <<"Validator">>)
            /\ s \in {<<"1", ".">>, <<".", "1">>} => error = "AmbiguousFloatLiteral"
            /\ s = <<"1", ".", "1">> => ~rejected

\* The open float ".1" is rejected.
C1_Witness ==
    /\ pc = "failed"
    /\ args_expression = <<".", "1">>
    /\ error = "AmbiguousFloatLiteral"

(***************************************************************************)
(* The Identifier Qualifier                                                *)
(***************************************************************************)

\* The end of the identifier run that starts at i: the letters and digits
\* behind its first character.
RECURSIVE C2_RunEnd(_, _)
C2_RunEnd(s, i) ==
    IF i < Len(s) /\ s[i + 1] \in Letters \cup Digits THEN C2_RunEnd(s, i + 1) ELSE i

\* The starts of the identifier runs of s from i on, taken left to right,
\* each maximal, none overlapping the one before.
RECURSIVE C2_RunStarts(_, _)
C2_RunStarts(s, i) ==
    IF i > Len(s) THEN {}
    ELSE IF s[i] \in Letters \cup {"_"}
         THEN {i} \cup C2_RunStarts(s, C2_RunEnd(s, i) + 1)
         ELSE C2_RunStarts(s, i + 1)

\* The runs not preceded by a letter, digit, underscore, period or backslash.
C2_Qualifying(s) ==
    {i \in C2_RunStarts(s, 1) :
        i = 1 \/ s[i - 1] \notin (Letters \cup Digits \cup {"_", ".", "\\"})}

\* s with "mp." put in front of the positions P and nothing else changed.
RECURSIVE C2_InsertPrefix(_, _, _)
C2_InsertPrefix(s, P, i) ==
    IF i > Len(s) THEN <<>>
    ELSE (IF i \in P THEN <<"m", "p", ".">> ELSE <<>>)
            \o <<s[i]>> \o C2_InsertPrefix(s, P, i + 1)

\* C2: the Identifier Qualifier's output is its input with "mp." inserted in
\* front of exactly the identifier runs that no letter, digit, underscore,
\* period or backslash precedes; every other character stays where it was.
C2_QualifierInsertsOnly ==
    pc = "qualified" =>
        expression = C2_InsertPrefix(args_expression, C2_Qualifying(args_expression), 1)

\* A qualified name and an escaped one.
C2_Witness ==
    /\ pc = "qualified"
    /\ args_expression = <<"x", " ", "\\", "x">>
    /\ expression = <<"m", "p", ".", "x", " ", "\\", "x">>

(***************************************************************************)
(* The Literal Extractor                                                   *)
(***************************************************************************)

\* The Literal Extractor's input: the Identifier Qualifier's output.
ExtractorInput == SubNames(args_expression, 1)

\* s from i on with the spans of ms (from the k-th on) replaced by lookups of
\* the spans' own text.
RECURSIVE C3_Replaced(_, _, _, _)
C3_Replaced(s, ms, k, i) ==
    IF k > Len(ms) THEN SubSeq(s, i, Len(s))
    ELSE SubSeq(s, i, ms[k].start - 1)
            \o <<"N", "U", "M", "B", "E", "R", "S", "[", "'">>
            \o SubSeq(s, ms[k].start, ms[k].end)
            \o <<"'", "]">>
            \o C3_Replaced(s, ms, k + 1, ms[k].end + 1)

\* Every place of s where a literal is matched is the start of a match of
\* ms or lies inside one.
C3_AllMatched(s, ms) ==
    \A i \in 1..Len(s) :
        NumberMatchAt(s, i).end # 0 =>
            \E k \in 1..Len(ms) : ms[k].start <= i /\ i <= ms[k].end

\* After a completed extraction: the table's keys are the matched texts, one
\* entry for each distinct text, and the string has a lookup of that text in
\* the place of each match.
C3_TableAndString ==
    pc = "extracted" =>
        LET s == ExtractorInput
            texts == {SubSeq(s, matches[k].start, matches[k].end) : k \in 1..Len(matches)}
        IN  /\ DOMAIN NUMBERS = texts
            /\ Cardinality(DOMAIN NUMBERS) = Cardinality(texts)
            /\ C3_AllMatched(s, matches)
            /\ expression = C3_Replaced(s, matches, 1, 1)

\* While the extraction runs, an entry of the table stays, with its value.
C3_TableGrows ==
    pc \in {"qualified", "extracting"} =>
        \A k \in DOMAIN NUMBERS : k \in DOMAIN NUMBERS' /\ NUMBERS'[k] = NUMBERS[k]

\* C3: after the Literal Extractor has run on an accepted expression the
\* table holds exactly one entry for each distinct matched literal text, every
\* matched literal has been replaced by a lookup whose key is that text and is
\* in the table, and during the extraction no entry is removed or overwritten.
C3_ExtractorTable == [](C3_TableAndString) /\ [][C3_TableGrows]_vars

\* "1 1": two matches of the same text, one entry.
C3_Witness ==
    /\ pc = "extracted"
    /\ args_expression = <<"1", " ", "1">>
    /\ Len(matches) = 2
    /\ Cardinality(DOMAIN NUMBERS) = 1

\* The match the callback was last called with.
LastMatch == matches[Len(matches)]

\* The text ends with t.
EndsWith(s, t) == Len(s) >= Len(t) /\ SubSeq(s, Len(s) - Len(t) + 1, Len(s)) = t

\* C5 as stated: for a match that consumed a trailing j, the key stored in the
\* table and used in the lookup is the literal's text without the j.
C5_KeyWithoutMarker ==
    (pc = "extracting" /\ LastMatch.end > LastMatch.g1end) =>
        LET key == SubSeq(expression, LastMatch.start, LastMatch.g1end)
        IN  /\ LastMatch.key = key
            /\ key \in DOMAIN NUMBERS
            /\ EndsWith(out, <<"[", "'">> \o key \o <<"'", "]">>)

\* C5, amended: for a match that consumed a trailing j, the key stored in the
\* table and used in the lookup is the whole matched text, the j included,
\* and the value stored under it is a complex one.
C5_KeyWithMarker ==
    (pc = "extracting" /\ LastMatch.end > LastMatch.g1end) =>
        LET key == SubSeq(expression, LastMatch.start, LastMatch.end)
        IN  /\ key[Len(key)] = "j"
            /\ LastMatch.key = key
            /\ key \in DOMAIN NUMBERS
            /\ NUMBERS[key].complex
            /\ EndsWith(out, <<"[", "'">> \o key \o <<"'", "]">>)

\* "1j" has been matched.
C5_Witness ==
    /\ pc = "extracting"
    /\ args_expression = <<"1", "j">>
    /\ LastMatch.end > LastMatch.g1end
    /\ DOMAIN NUMBERS = {<<"1", "j">>}

\* A numeric literal without a sign begins at p: the grammar's integer part,
\* optional fraction, optional exponent and optional j, followed by no
\* letter, digit, period or underscore.
LiteralAt(s, p) ==
    \E e1 \in IntEnds(s, p) :
        \E f \in FractionEnds(s, e1) :
            \E x \in ExponentEnds(s, f[2]) :
                \E j \in ImaginaryEnds(s, x[2]) : NumberLookahead(s, j[2])

\* C9: a minus sign immediately followed by a numeric literal and not
\* immediately preceded by a letter, digit, underscore, period or backslash
\* is extracted with the literal as one token: the key, which is in the table
\* and in the lookup, begins with the minus, and no match begins behind it.
C9_MinusInKey ==
    pc = "extracted" =>
        LET s == ExtractorInput
        IN  \A i \in 1..Len(s) :
                ( /\ s[i] = "-"
                  /\ (i = 1 \/ s[i - 1] \notin (Letters \cup Digits \cup {"_", ".", "\\"}))
                  /\ LiteralAt(s, i + 1) ) =>
                    /\ \E k \in 1..Len(matches) :
                        /\ matches[k].start = i
                        /\ matches[k].key = SubSeq(s, i, matches[k].end)
                        /\ matches[k].key[1] = "-"
                        /\ matches[k].key \in DOMAIN NUMBERS
                    /\ \A k \in 1..Len(matches) : matches[k].start # i + 1

\* "-1.1" gives the one key "-1.1".
C9_Witness ==
    /\ pc = "extracted"
    /\ args_expression = <<"-", "1", ".", "1">>
    /\ DOMAIN NUMBERS = {<<"-", "1", ".", "1">>}
    /\ expression = Lookup(<<"-", "1", ".", "1">>)

\* A left operand ends before i: a digit, an identifier character, a closing
\* parenthesis or a closing bracket, with nothing but whitespace up to i.
C10_OperandBefore(s, i) ==
    \E q \in 1..(i - 1) :
        /\ s[q] \in Digits \cup Letters \cup {"_", ")", "]"}
        /\ \A r \in (q + 1)..(i - 1) : s[r] \in Whitespace

\* C10 as stated: a minus sign standing between a left operand and a numeric
\* literal is still an operator in the rewritten string; it is not taken into
\* the literal's lookup, which would leave the two operands side by side.
C10_MinusStaysOperator ==
    pc = "extracted" =>
        LET s == ExtractorInput
        IN  \A i \in 1..Len(s) :
                (s[i] = "-" /\ C10_OperandBefore(s, i) /\ LiteralAt(s, i + 1)) =>
                    \A k \in 1..Len(matches) :
                        ~(matches[k].start <= i /\ i <= matches[k].end)

(***************************************************************************)
(* The escape marker                                                       *)
(***************************************************************************)

\* The end of the numeric literal token at p, leading minus included, as the
\* grammar reads it: its longest reading.  0 when no token begins at p.
C4_NumberTokenEnd(s, p) ==
    LET ends == UNION {UNION {UNION {
                    {j[2] : j \in ImaginaryEnds(s, x[2])}
                    : x \in ExponentEnds(s, f[2])}
                    : f \in FractionEnds(s, e1)}
                    : e1 \in IntEnds(s, p + (IF At(s, p) = "-" THEN 1 ELSE 0))}
    IN  IF ends = {} THEN 0 ELSE CHOOSE e \in ends : \A d \in ends : d <= e

\* C4 as stated: an identifier or a numeric literal token (its optional
\* leading minus included) immediately preceded by a backslash gets no
\* namespace prefix and no table lookup in any part; the final string holds
\* no backslash.
C4_EscapeSuppresses ==
    /\ pc \in {"extracted", "stripped"} =>
        LET s == ExtractorInput
        IN  \A i \in 1..Len(s) :
                s[i] = "\\" =>
                    /\ At(s, i + 1) \in Letters \cup {"_"} =>
                        \A p \in (i + 1)..C2_RunEnd(s, i + 1) :
                            /\ NameMatchEnd(s, p) = 0
                            /\ \A k \in 1..Len(matches) :
                                ~(matches[k].start <= p /\ p <= matches[k].end)
                    /\ C4_NumberTokenEnd(s, i + 1) # 0 =>
                        \A k \in 1..Len(matches) :
                            \/ matches[k].end < i + 1
                            \/ matches[k].start > C4_NumberTokenEnd(s, i + 1)
    /\ pc = "stripped" => \A i \in 1..Len(expression) : expression[i] # "\\"

(***************************************************************************)
(* The run as a whole                                                      *)
(***************************************************************************)

\* t occurs in s
Occurs(t, s) ==
    \E i \in 1..(Len(s) - Len(t) + 1) : SubSeq(s, i, i + Len(t) - 1) = t

C7_PrecisionScoped ==
    /\ pc \in {"qualified", "extracting", "extracted", "stripped", "evaluated"} =>
        mp_dps = DIGITS
    /\ pc \in {"start", "validated", "done", "failed"} => mp_dps = dps_before

\* A run at 5 digits that ended in an evaluation failure.
C7_Witness ==
    /\ pc = "failed"
    /\ error = "EvaluationError"
    /\ DIGITS = 5
    /\ mp_dps = 15

Stages == <<"Validator", "Qualifier", "Extractor", "Stripper", "Evaluator">>

\* C8: the stages run in the order Validator, Identifier Qualifier, Literal
\* Extractor, Escape Stripper, Evaluator and a failure stops the run where it
\* happens: after a rejection by the Validator no name is qualified, the
\* table is unchanged and the Evaluator is not invoked; after a failed
\* extraction the Evaluator is not invoked; a failed run prints nothing.
C8_FailFast ==
    /\ Len(ran) <= Len(Stages) /\ ran = SubSeq(Stages, 1, Len(ran))
    /\ error \in {"InvalidCharacter", "AmbiguousFloatLiteral"} =>
        /\ ran = <<"Validator">>
        /\ expression = args_expression
        /\ DOMAIN NUMBERS = {}
        /\ matches = <<>>
    /\ error = "LiteralParseError" => Len(ran) = 3
    /\ error = "EvaluationError" => ran = Stages
    /\ error # "none" => pc \in {"failed", "boot"} /\ ~printed
    /\ printed => ran = Stages /\ error = "none"

\* The second literal of "1 11" did not parse; nothing was evaluated.
C8_Witness ==
    /\ pc = "failed"
    /\ error = "LiteralParseError"
    /\ args_expression = <<"1", " ", "1", "1">>
    /\ Len(matches) = 1
    /\ ran = <<"Validator", "Qualifier", "Extractor">>

====
